---- MODULE Spec2Model ----
(***************************************************************************)
(* NextHire backend: the OTP signup flow of main.py (send_otp,             *)
(* verify_signup over the users and otps tables of users.db) and the mock  *)
(* interview routes of interview.py (start_interview, submit_answer,       *)
(* get_report over the sessions and qa_history tables).                    *)
(*                                                                         *)
(* Text values the code computes on (emails, usernames, experience labels) *)
(* are sequences of one-character strings, so that lower(), strip(),       *)
(* split("@") and the "in" substring test are computed, not assumed.       *)
(***************************************************************************)
EXTENDS Integers, Sequences, FiniteSets, TLC

None == "None"
\* the absent value of a text field
NoText == << >>

----------------------------------------------------------------------------
(* Bounds of the model *)

\* the clock stops here (minutes)
MaxTime == 20
\* number of send_otp requests in one behaviour
MaxSends == 2
\* number of sessions start_interview creates in one behaviour
MaxSessions == 1
\* number of rows of qa_history in one behaviour
MaxTurns == 2
\* length of the candidate lists handed to filter_sort_candidates
MaxCands == 3
\* number of messages the client sends on the connection
MaxMsgs == 4
\* number of rows of resume_analysis in one behaviour
MaxAnalyses == 2

----------------------------------------------------------------------------
(* Text helpers *)

UpperCase == <<"A", "B", "C", "D", "E", "F", "G", "H", "I", "J", "K", "L", "M",
               "N", "O", "P", "Q", "R", "S", "T", "U", "V", "W", "X", "Y", "Z">>

LowerCase == <<"a", "b", "c", "d", "e", "f", "g", "h", "i", "j", "k", "l", "m",
               "n", "o", "p", "q", "r", "s", "t", "u", "v", "w", "x", "y", "z">>

\* str.lower() on one character
LowerChar(c) ==
    IF \E i \in DOMAIN UpperCase : UpperCase[i] = c
    THEN LowerCase[CHOOSE i \in DOMAIN UpperCase : UpperCase[i] = c]
    ELSE c

Lower(s) == [i \in DOMAIN s |-> LowerChar(s[i])]

\* str.strip(): drop leading and trailing blanks
RECURSIVE LStrip(_)
LStrip(s) == IF s # <<>> /\ Head(s) = " " THEN LStrip(Tail(s)) ELSE s

RECURSIVE RStrip(_)
RStrip(s) ==
    IF s # <<>> /\ s[Len(s)] = " " THEN RStrip(SubSeq(s, 1, Len(s) - 1)) ELSE s

Strip(s) == RStrip(LStrip(s))

\* payload.email.lower().strip()
NormEmail(raw) == Strip(Lower(raw))

\* email.split("@")[0]
RECURSIVE LocalPart(_)
LocalPart(s) ==
    IF s = <<>> \/ Head(s) = "@" THEN <<>> ELSE <<Head(s)>> \o LocalPart(Tail(s))

\* str(n) for n >= 0
Digit(d) == CASE d = 0 -> "0" [] d = 1 -> "1" [] d = 2 -> "2" [] d = 3 -> "3"
              [] d = 4 -> "4" [] d = 5 -> "5" [] d = 6 -> "6" [] d = 7 -> "7"
              [] d = 8 -> "8" [] d = 9 -> "9"

RECURSIVE Str(_)
Str(n) == IF n < 10 THEN <<Digit(n)>> ELSE Str(n \div 10) \o <<Digit(n % 10)>>

----------------------------------------------------------------------------
(* Inputs of the signup flow *)

RawEmails == { <<"A", "@", "x">>, <<"a", "@", "x">>, <<"a", "@", "y">> }
Emails == { NormEmail(r) : r \in RawEmails }
Purposes == { "signup", "reset" }
\* random.choices(string.digits, k=6): two of the 10^6 strings
Codes == { "111111", "222222" }
Roles == { "candidate" }
\* two server workers can run verify_signup at the same time
Workers == { 1, 2 }

\* timedelta(minutes=10)
OTP_TTL_MIN == 10
\* the clock is observed every ten minutes
TickSteps == { OTP_TTL_MIN }

VARIABLES
    otps,      \* table otps: set of rows [email, purpose, code, expires_at]
    users,     \* table users: set of rows [email, username, role]
    now,       \* datetime.utcnow(), in minutes
    pc,        \* per worker: position inside verify_signup
    loc,       \* per worker: local variables of verify_signup
    resp,      \* the last response (or step) of the signup flow
    sent,      \* history: per (email, purpose) the last code mailed, the one before
    nsend,     \* number of send_otp requests so far
    client,    \* interview.py: TRUE when the OpenAI client was built at import
    sessions,  \* table sessions: set of rows [session_id, skills, experience]
    qa_history,\* table qa_history: rows in AUTOINCREMENT order
    mresp,     \* the last response of the mock interview routes
    hr_status, \* table hr_status: set of rows [email, status]
    last_status,\* history: per email the state of the last accepted update_status
    interviews,\* table interviews: per user_email the score column, in query order
    mock_reports,\* table mock_reports: per user_email the score column
    resumes,   \* table resumes: per user_email the resume_score column
    hresp,     \* the last response of the HR routes
    caller_list,\* the list object a caller handed to filter_sort_candidates
    fresp,     \* the arguments and the result of that call
    resume_client,\* resume_routes.py: TRUE when the OpenAI client was built at import
    resume_analysis,\* table resume_analysis: rows in AUTOINCREMENT order
    rresp,     \* the last response of analyze_resume
    resume_col,\* main.py: TRUE when table users has the column resume
    user_resume,\* the column resume of users, per email of an account
    uploads,   \* the files in uploads/resumes
    uresp,     \* the last response of upload_resume
    route,     \* the handler /ws/interview is bound to: "main" or "coach"
    voice_ok,  \* TRUE when the speech synthesis delivers audio
    ws,        \* the connection: handler position, inbound queue, outbound frames
    iv,        \* interview_ws: interview_state, history, last_question
    active     \* interview_coach.py: the process-global table active

authVars == <<otps, users, now, pc, loc, resp, sent, nsend>>

mockVars == <<client, sessions, qa_history, mresp>>

hrVars == <<hr_status, last_status, interviews, mock_reports, resumes, hresp>>

filterVars == <<caller_list, fresp>>

resumeVars == <<resume_client, resume_analysis, rresp>>

uploadVars == <<resume_col, user_resume, uploads, uresp>>

wsVars == <<route, voice_ok, ws, iv, active>>

moreVars == <<resumeVars, uploadVars, wsVars>>

vars == <<otps, users, now, pc, loc, resp, sent, nsend,
          client, sessions, qa_history, mresp,
          hr_status, last_status, interviews, mock_reports, resumes, hresp,
          caller_list, fresp,
          resume_client, resume_analysis, rresp,
          resume_col, user_resume, uploads, uresp,
          route, voice_ok, ws, iv, active>>

Keys == Emails \X Purposes

NoLoc == [email |-> NoText, otp |-> None, username |-> NoText, role |-> None, old |-> None]

Response(op, email, otp, status, detail) ==
    [op |-> op, email |-> email, otp |-> otp, status |-> status, detail |-> detail]

----------------------------------------------------------------------------
(* Tables *)

\* SELECT ... FROM otps WHERE email=? AND purpose=?
OtpRows(rows, e, p) == { r \in rows : r.email = e /\ r.purpose = p }

\* DELETE FROM otps WHERE email=? AND purpose=?
OtpDelete(rows, e, p) == rows \ OtpRows(rows, e, p)

\* PRIMARY KEY (email, purpose) of otps
OtpPkConflict(rows, r) == OtpRows(rows, r.email, r.purpose) # {}

\* INSERT INTO otps: an IntegrityError leaves the table as it was
OtpInsert(rows, r) == IF OtpPkConflict(rows, r) THEN rows ELSE rows \cup {r}

\* send_otp's transaction, with the supersede step dropped and no primary key
SendOtpTxnAppend(rows, e, p, code, expires) ==
    rows \cup { [email |-> e, purpose |-> p, code |-> code, expires_at |-> expires] }

\* send_otp's transaction: DELETE the pair's row, INSERT the new one, commit
SendOtpTxn(rows, e, p, code, expires) ==
    OtpInsert(OtpDelete(rows, e, p),
              [email |-> e, purpose |-> p, code |-> code, expires_at |-> expires])

\* users.email UNIQUE NOT NULL
EmailTaken(rows, e) == \E u \in rows : u.email = e

\* SELECT id FROM users WHERE username=?
UsernameTaken(rows, name) == \E u \in rows : u.username = name

\* the schema of users with UNIQUE on email only
UsersUniqueViolationEmailOnly(rows, row) == EmailTaken(rows, row.email)

\* INSERT INTO users raises IntegrityError: email UNIQUE, username UNIQUE
UsersUniqueViolation(rows, row) ==
    \/ EmailTaken(rows, row.email)
    \/ \E u \in rows : u.username = row.username

\* the while-loop of verify_signup: base, base1, base2, ...
RECURSIVE PickUsername(_, _, _, _)
PickUsername(rows, base, username, n) ==
    IF ~ UsernameTaken(rows, username)
    THEN username
    ELSE PickUsername(rows, base, base \o Str(n), n + 1)

----------------------------------------------------------------------------
(* Signup flow *)

InitAuth ==
    /\ otps = {}
    /\ users = {}
    /\ now = 0
    /\ pc = [w \in Workers |-> "idle"]
    /\ loc = [w \in Workers |-> NoLoc]
    /\ resp = Response("init", NoText, None, 0, None)
    /\ sent = [k \in Keys |-> [code |-> None, exp |-> 0, old |-> None]]
    /\ nsend = 0

\* time passes
Tick(d) ==
    /\ now + d <= MaxTime
    /\ now' = now + d
    /\ resp' = Response("tick", NoText, None, 0, None)
    /\ UNCHANGED <<otps, users, pc, loc, sent, nsend, mockVars, hrVars, filterVars, moreVars>>

\* POST /send-otp
send_otp(raw, purpose, code) ==
    LET email == NormEmail(raw)
        expires == now + OTP_TTL_MIN
    IN  /\ nsend < MaxSends
        /\ nsend' = nsend + 1
        /\ otps' = SendOtpTxn(otps, email, purpose, code, expires)
        /\ sent' = [sent EXCEPT ![<<email, purpose>>] =
                        [code |-> code, exp |-> expires, old |-> @.code]]
        /\ resp' = Response("send_otp", email, None, 200, "OTP sent successfully")
        /\ UNCHANGED <<users, now, pc, loc, mockVars, hrVars, filterVars, moreVars>>

\* datetime.utcnow() > datetime.fromisoformat(exp), with >= in place of >
ExpiredAtBoundary(t, exp) == t >= exp

\* datetime.utcnow() > datetime.fromisoformat(exp)
Expired(t, exp) == t > exp

\* db_otp != data.otp, never true
CodeDiffersNever(db_otp, otp) == FALSE

\* db_otp != data.otp
CodeDiffers(db_otp, otp) == db_otp # otp

\* the expiry test left out
OtpCheckNoExpiry(row, otp, t) ==
    IF CodeDiffers(row.code, otp) THEN "Invalid OTP" ELSE "ok"

\* the two tests of verify_signup on the fetched row, in the code's order
OtpCheck(row, otp, t) ==
    IF Expired(t, row.expires_at) THEN "OTP expired"
    ELSE IF CodeDiffers(row.code, otp) THEN "Invalid OTP"
    ELSE "ok"

\* POST /verify-signup, first part: the SELECTs (each its own read) up to
\* the choice of the username
verify_signup_check(w, raw, otp, role) ==
    LET email == NormEmail(raw)
        rows == OtpRows(otps, email, "signup")
    IN  /\ pc[w] = "idle"
        /\ IF rows = {}
           THEN /\ resp' = Response("verify_signup", email, otp, 400, "OTP not found")
                /\ UNCHANGED <<pc, loc>>
           ELSE \E row \in rows :      \* cur.fetchone()
                LET verdict == OtpCheck(row, otp, now) IN
                IF verdict # "ok"
                THEN /\ resp' = Response("verify_signup", email, otp, 400, verdict)
                     /\ UNCHANGED <<pc, loc>>
                ELSE /\ pc' = [pc EXCEPT ![w] = "insert"]
                     /\ loc' = [loc EXCEPT ![w] =
                            [email |-> email, otp |-> otp,
                             username |-> PickUsername(users, LocalPart(email),
                                                       LocalPart(email), 1),
                             role |-> role,
                             old |-> sent[<<email, "signup">>].old]]
                     /\ resp' = Response("verify_signup_check", email, otp, 0, "checked")
        /\ UNCHANGED <<otps, users, now, sent, nsend, mockVars, hrVars, filterVars, moreVars>>

\* the transaction of verify_signup without its DELETE
VerifyTxnOtpsKeep(rows, e) == rows

\* the DELETE of verify_signup's transaction
VerifyTxnOtps(rows, e) == OtpDelete(rows, e, "signup")

\* POST /verify-signup, second part: INSERT INTO users, DELETE FROM otps,
\* commit; an IntegrityError of the INSERT is not caught (rollback, HTTP 500)
verify_signup_insert(w) ==
    LET l == loc[w] IN
    /\ pc[w] = "insert"
    /\ pc' = [pc EXCEPT ![w] = "idle"]
    /\ loc' = [loc EXCEPT ![w] = NoLoc]
    /\ IF UsersUniqueViolation(users, l)
       THEN /\ resp' = Response("verify_signup", l.email, l.otp, 500,
                                "Internal Server Error")
            /\ UNCHANGED <<users, otps>>
       ELSE /\ users' = users \cup
                    { [email |-> l.email, username |-> l.username, role |-> l.role] }
            /\ otps' = VerifyTxnOtps(otps, l.email)
            /\ resp' = Response("verify_signup", l.email, l.otp, 200, "Signup successful")
    /\ UNCHANGED <<now, sent, nsend, mockVars, hrVars, filterVars, moreVars>>

NextAuth ==
    \/ \E d \in TickSteps : Tick(d)
    \/ \E raw \in RawEmails, p \in Purposes, c \in Codes : send_otp(raw, p, c)
    \/ \E w \in Workers, raw \in RawEmails, c \in Codes, r \in Roles :
            verify_signup_check(w, raw, c, r)
    \/ \E w \in Workers : verify_signup_insert(w)

----------------------------------------------------------------------------
(* Mock interview (interview.py): texts and JSON *)

\* "sub in s" on texts
Contains(sub, s) ==
    \E i \in 0..(Len(s) - Len(sub)) : SubSeq(s, i + 1, i + Len(sub)) = sub

\* ", ".join(req.skills)
RECURSIVE Join(_)
Join(skills) ==
    IF skills = <<>> THEN <<>>
    ELSE IF Len(skills) = 1 THEN skills
    ELSE <<Head(skills), ", ">> \o Join(Tail(skills))

\* JSON values: a number, a string, null
JInt(n) == [ty |-> "int", n |-> n, s |-> ""]
JStr(x) == [ty |-> "str", n |-> 0, s |-> x]
JNull == [ty |-> "null", n |-> 0, s |-> ""]

\* A reply of the remote model is a sequence of tokens: braces, object
\* members "key": value, a bare number, prose
LB == [t |-> "{", k |-> "", v |-> JNull]
RB == [t |-> "}", k |-> "", v |-> JNull]
Prose == [t |-> "prose", k |-> "", v |-> JNull]
Num(n) == [t |-> "num", k |-> "", v |-> JInt(n)]
Member(k, v) == [t |-> "member", k |-> k, v |-> v]
\* message.content is None: not a text at all
NoneText == << [t |-> "None", k |-> "", v |-> JNull] >>

\* the result of a parse: a dict, another JSON value, or an exception
Dict(d) == [kind |-> "dict", d |-> d, v |-> JNull]
Scalar(v) == [kind |-> "scalar", d |-> << >>, v |-> v]
Raised == [kind |-> "raise", d |-> << >>, v |-> JNull]

\* the value of the last member with key k (json.loads keeps the last)
RECURSIVE LastValue(_, _)
LastValue(members, k) ==
    IF members[Len(members)].k = k
    THEN members[Len(members)].v
    ELSE LastValue(SubSeq(members, 1, Len(members) - 1), k)

\* json.loads(text): an object of members, or a bare number; anything else,
\* None included, raises
json_loads(text) ==
    IF text = NoneText THEN Raised
    ELSE IF /\ Len(text) >= 2
            /\ text[1] = LB
            /\ text[Len(text)] = RB
            /\ \A i \in 2..(Len(text) - 1) : text[i].t = "member"
    THEN LET members == SubSeq(text, 2, Len(text) - 1)
         IN  Dict([k \in { members[i].k : i \in DOMAIN members } |->
                        LastValue(members, k)])
    ELSE IF Len(text) = 1 /\ text[1].t = "num" THEN Scalar(text[1].v)
    ELSE Raised

\* re.search(r"\{.*\}", text, re.DOTALL): from the first "{" to the last "}";
\* the empty text stands for no match
regex_span(text) ==
    LET opens == { i \in DOMAIN text : text[i] = LB }
        closes == { i \in DOMAIN text : text[i] = RB }
    IN  IF opens = {} \/ closes = {} THEN << >>
        ELSE LET i == CHOOSE x \in opens : \A y \in opens : x <= y
                 j == CHOOSE x \in closes : \A y \in closes : x >= y
             IN  IF i < j THEN SubSeq(text, i, j) ELSE << >>

\* the safe default of clean_json
DefaultRecord ==
    Dict([k \in {"score", "feedback", "improved_answer", "next_question"} |->
            CASE k = "score" -> JInt(5)
              [] k = "feedback" -> JStr("Could not parse AI response. Keep going!")
              [] k = "improved_answer" -> JStr("Try to be more specific next time.")
              [] k = "next_question" -> JStr("Let's move to the next topic.")])

\* clean_json(text)
clean_json(text) ==
    LET strict == json_loads(text) IN
    IF strict.kind # "raise" THEN strict
    ELSE LET span == IF text = NoneText THEN << >> ELSE regex_span(text)
             loose == IF span = << >> THEN Raised ELSE json_loads(span)
         IN  IF loose.kind # "raise" THEN loose ELSE DefaultRecord

\* the text "{}" that submit_answer hands to clean_json
EmptyObjectText == <<LB, RB>>

\* data.get(key) on a dict
DictGet(d, key) == IF key \in DOMAIN d THEN d[key] ELSE JNull

\* get_fallback_question with the topic fixed
get_fallback_question_fixed(skills) ==
    <<"We are having trouble connecting to the AI. Let's stick to basics: What is ",
      "programming", "?">>

\* get_fallback_question(skills)
get_fallback_question(skills) ==
    LET topic == IF skills # <<>> THEN skills[1] ELSE "programming"
    IN  <<"We are having trouble connecting to the AI. Let's stick to basics: What is ",
          topic, "?">>

\* get_difficulty_instruction(experience), by the heading of the instruction
get_difficulty_instruction(experience) ==
    LET exp == Lower(experience) IN
    IF Contains(<<"f", "r", "e", "s", "h", "e", "r">>, exp) \/ Contains(<<"0", "-", "1">>, exp)
    THEN "BEGINNER"
    ELSE IF \/ Contains(<<"i", "n", "t", "e", "r", "m", "e", "d", "i", "a", "t", "e">>, exp)
            \/ Contains(<<"1", "-", "3">>, exp)
    THEN "INTERMEDIATE"
    ELSE "SENIOR"

\* q.strip() on a reply of tokens, blanks being the token " "
\* q.replace('"', '').replace("'", "")
RECURSIVE DropQuotes(_)
DropQuotes(q) ==
    IF q = <<>> THEN <<>>
    ELSE IF Head(q) \in {"\"", "'"} THEN DropQuotes(Tail(q))
    ELSE <<Head(q)>> \o DropQuotes(Tail(q))

\* x // n in place of round(x / n)
PyFloorDiv(x, n) == x \div n

\* round(x / n) of Python 3 for x >= 0, n > 0: half goes to the even neighbour
PyRound(x, n) ==
    LET q == x \div n
        r == x % n
    IN  IF 2 * r < n THEN q
        ELSE IF 2 * r > n THEN q + 1
        ELSE IF q % 2 = 0 THEN q ELSE q + 1

RECURSIVE SumSeq(_)
SumSeq(xs) == IF xs = <<>> THEN 0 ELSE Head(xs) + SumSeq(Tail(xs))

----------------------------------------------------------------------------
(* Mock interview: inputs *)

SkillLists == { << >>, <<"python", "sql">> }

Experiences ==
    { <<"F", "r", "e", "s", "h", "e", "r">>,
      <<"I", "n", "t", "e", "r", "m", "e", "d", "i", "a", "t", "e">>,
      <<"S", "e", "n", "i", "o", "r">> }

\* the experience submit_answer assumes when the session row is missing
DefaultExperience ==
    <<"F", "r", "e", "s", "h", "e", "r", " ", "(", "0", "-", "1", " ",
      "Y", "e", "a", "r", "s", ")">>

\* what the chat completion of start_interview can do: raise, answer without
\* content, answer with a question
StartOutcomes ==
    { [kind |-> "raise", content |-> << >>],
      [kind |-> "none", content |-> << >>],
      [kind |-> "reply", content |-> <<" ", "\"", "What is SQL?", "\"", " ">>] }

ModelScores == { 3, 9 }

EvalReply(n) == <<LB, Member("score", JInt(n)), Member("feedback", JStr("ok")), RB>>

\* what the chat completion of submit_answer can do
AnswerOutcomes ==
    { [kind |-> "raise", content |-> << >>],
      [kind |-> "reply", content |-> NoneText],
      [kind |-> "reply", content |-> <<Prose>>],
      [kind |-> "reply", content |-> <<LB, Prose, RB>>],
      [kind |-> "reply", content |-> <<Num(7)>>],
      [kind |-> "reply", content |-> <<LB, Member("feedback", JStr("ok")), RB>>],
      [kind |-> "reply", content |-> <<Prose, LB, Member("score", JInt(4)), RB, Prose>>] }
    \cup { [kind |-> "reply", content |-> EvalReply(n)] : n \in ModelScores }

\* a session id no start_interview returned
GhostId == 0

\* str(uuid.uuid4()): the n-th session gets the id n
SessionIds == { r.session_id : r \in sessions }

NoBody == Raised

\* no chat completion was attempted
NoCall == [kind |-> "no call", content |-> << >>]

\* a response: what came back, and (ai) what the chat completion had done
MResponse(op, sid, status, body, question) ==
    [op |-> op, sid |-> sid, status |-> status, body |-> body, question |-> question,
     ai |-> NoCall]

----------------------------------------------------------------------------
(* Mock interview: routes *)

InitMockIdle ==
    /\ client = FALSE
    /\ sessions = {}
    /\ qa_history = <<>>
    /\ mresp = MResponse("init", GhostId, 0, NoBody, <<>>)

\* after import: the client exists when the key and the library are there
InitMock ==
    /\ client \in BOOLEAN
    /\ sessions = {}
    /\ qa_history = <<>>
    /\ mresp = MResponse("init", GhostId, 0, NoBody, <<>>)

\* the question start_interview returns
FirstQuestion(hasClient, skills, ai) ==
    IF ~ hasClient THEN get_fallback_question(skills)
    ELSE IF ai.kind \in {"raise", "none"} THEN get_fallback_question(skills)
    ELSE DropQuotes(Strip(ai.content))

\* POST /mock/start
start_interview(skills, experience, ai) ==
    LET session_id == Cardinality(sessions) + 1 IN
    /\ Cardinality(sessions) < MaxSessions
    /\ sessions' = sessions \cup
            { [session_id |-> session_id, skills |-> Join(skills),
               experience |-> experience] }
    /\ mresp' = [MResponse("start_interview", session_id, 200, NoBody,
                           FirstQuestion(client, skills, ai))
                 EXCEPT !.body = [kind |-> "start", d |-> skills, v |-> JStr(ai.kind)]]
    /\ UNCHANGED <<client, qa_history, authVars, hrVars, filterVars, moreVars>>

\* the experience submit_answer grades with
SessionExperience(rows, sid) ==
    IF \E r \in rows : r.session_id = sid
    THEN (CHOOSE r \in rows : r.session_id = sid).experience
    ELSE DefaultExperience

\* POST /mock/answer
submit_answer(sid, ai) ==
    LET experience == SessionExperience(sessions, sid)
        difficulty_prompt == get_difficulty_instruction(experience)
        data == IF ai.kind = "raise" THEN Raised ELSE clean_json(ai.content)
    IN
    /\ Len(qa_history) < MaxTurns
    /\ IF ~ client
       THEN \* returns before the prompt is built
            /\ mresp' = MResponse("submit_answer", sid, 200,
                                  clean_json(EmptyObjectText), << >>)
            /\ UNCHANGED qa_history
       ELSE IF data.kind # "dict"
       THEN \* the call raised, or data.get raised on a non-dict: except branch
            /\ mresp' = [MResponse("submit_answer", sid, 200,
                                   clean_json(EmptyObjectText), <<difficulty_prompt>>)
                         EXCEPT !.ai = ai]
            /\ UNCHANGED qa_history
       ELSE /\ qa_history' = Append(qa_history,
                    [session_id |-> sid,
                     ai_feedback |-> DictGet(data.d, "feedback"),
                     score |-> DictGet(data.d, "score")])
            /\ mresp' = [MResponse("submit_answer", sid, 200, data, <<difficulty_prompt>>)
                         EXCEPT !.ai = ai]
    /\ UNCHANGED <<client, sessions, authVars, hrVars, filterVars, moreVars>>

\* SELECT score FROM qa_history WHERE session_id=?
ReportRows(hist, sid) == SelectSeq(hist, LAMBDA r : r.session_id = sid)

\* what get_report answers from the rows it fetched (tips in the question slot)
Report(status, body, tips) == [status |-> status, body |-> body, tips |-> tips]

\* the body of get_report from the scores on: sum() raises TypeError on a
\* score that is no number
ScoredReport(scores) ==
    IF \E i \in DOMAIN scores : scores[i].ty # "int"
    THEN Report(500, NoBody, <<>>)
    ELSE Report(200,
                Dict([k \in {"final_score"} |->
                        JInt(PyRound(SumSeq([i \in DOMAIN scores |-> scores[i].n]),
                                     Len(scores)))]),
                <<"Review core definitions.", "Practice STAR method.",
                  "Clarify edge cases.">>)

\* get_report without its "if not rows" guard: len(scores) = 0 divides by zero
ReportOfUnguarded(rows) ==
    IF rows = <<>> THEN Report(500, NoBody, <<>>)
    ELSE ScoredReport([i \in DOMAIN rows |-> rows[i].score])

\* get_report on the fetched rows
ReportOf(rows) ==
    IF rows = <<>>
    THEN Report(200, Dict([k \in {"final_score"} |-> JInt(0)]),
                <<"No answers recorded.">>)
    ELSE ScoredReport([i \in DOMAIN rows |-> rows[i].score])

\* GET /mock/report/{session_id}
get_report(sid) ==
    LET r == ReportOf(ReportRows(qa_history, sid)) IN
    /\ mresp' = MResponse("get_report", sid, r.status, r.body, r.tips)
    /\ UNCHANGED <<client, sessions, qa_history, authVars, hrVars, filterVars, moreVars>>

----------------------------------------------------------------------------
(* Binary floating point (Python float, IEEE 754 double) on small values.   *)
(* A value is m * 2^e with the mantissa m a sequence of bits, lowest first. *)

\* the bits of a natural number, lowest first
RECURSIVE NatBits(_)
NatBits(n) == IF n = 0 THEN << >> ELSE <<n % 2>> \o NatBits(n \div 2)

\* the natural number of a bit sequence
RECURSIVE BitsNat(_)
BitsNat(b) == IF b = << >> THEN 0 ELSE Head(b) + 2 * BitsNat(Tail(b))

\* drop the zero bits at the high end
RECURSIVE TrimBits(_)
TrimBits(b) ==
    IF b # << >> /\ b[Len(b)] = 0 THEN TrimBits(SubSeq(b, 1, Len(b) - 1)) ELSE b

RECURSIVE AddBitsCarry(_, _, _)
AddBitsCarry(a, b, c) ==
    IF a = << >> /\ b = << >> THEN (IF c = 0 THEN << >> ELSE <<c>>)
    ELSE LET x == IF a = << >> THEN 0 ELSE Head(a)
             y == IF b = << >> THEN 0 ELSE Head(b)
             ra == IF a = << >> THEN << >> ELSE Tail(a)
             rb == IF b = << >> THEN << >> ELSE Tail(b)
         IN  <<(x + y + c) % 2>> \o AddBitsCarry(ra, rb, (x + y + c) \div 2)

AddBits(a, b) == AddBitsCarry(a, b, 0)

\* b * 2^k
ShiftLeft(b, k) == [i \in 1..k |-> 0] \o b

\* n * b for a natural number n
RECURSIVE MulSmall(_, _)
MulSmall(n, b) ==
    IF n = 0 THEN << >>
    ELSE LET rest == ShiftLeft(MulSmall(n \div 2, b), 1)
         IN  IF n % 2 = 1 THEN AddBits(b, rest) ELSE rest

\* bits of a hexadecimal numeral, highest digit first
RECURSIVE HexBits(_)
HexBits(h) ==
    IF h = << >> THEN << >>
    ELSE LET d == h[Len(h)]
         IN  <<d % 2, (d \div 2) % 2, (d \div 4) % 2, (d \div 8) % 2>>
                \o HexBits(SubSeq(h, 1, Len(h) - 1))

Float(m, e) == [m |-> TrimBits(m), e |-> e]

\* the number of mantissa bits of a double
MANT_DIG == 53

\* round to nearest double, ties to even
RoundDouble(f) ==
    LET n == Len(f.m) IN
    IF n <= MANT_DIG THEN f
    ELSE LET k == n - MANT_DIG
             low == SubSeq(f.m, 1, k)
             high == SubSeq(f.m, k + 1, n)
             sticky == \E i \in 1..(k - 1) : low[i] = 1
             up == low[k] = 1 /\ (sticky \/ high[1] = 1)
         IN  Float(IF up THEN AddBits(high, <<1>>) ELSE high, f.e + k)

\* the double 0.6 = 0x13333333333333 * 2^-53
Double06 == Float(HexBits(<<1, 3, 3, 3, 3, 3, 3, 3, 3, 3, 3, 3, 3, 3>>), 0 - 53)

\* the double 0.2 = 0x1999999999999A * 2^-55
Double02 == Float(HexBits(<<1, 9, 9, 9, 9, 9, 9, 9, 9, 9, 9, 9, 9, 10>>), 0 - 55)

\* n * d for an int n >= 0 and a double d
FMulInt(n, d) == RoundDouble(Float(MulSmall(n, d.m), d.e))

\* a + b on doubles >= 0
FAdd(a, b) ==
    LET e == IF a.e < b.e THEN a.e ELSE b.e
    IN  RoundDouble(Float(AddBits(ShiftLeft(a.m, a.e - e), ShiftLeft(b.m, b.e - e)), e))

\* int(f) for a double f >= 0
FTruncInt(f) ==
    IF f.e >= 0 THEN BitsNat(ShiftLeft(f.m, f.e))
    ELSE IF 0 - f.e >= Len(f.m) THEN 0
    ELSE BitsNat(SubSeq(f.m, 1 - f.e, Len(f.m)))

\* int((interview_avg * 0.6) + (mock_score * 0.2) + (resume_score * 0.2))
OverallScore(interview_avg, mock_score, resume_score) ==
    FTruncInt(FAdd(FAdd(FMulInt(interview_avg, Double06), FMulInt(mock_score, Double02)),
                   FMulInt(resume_score, Double02)))

----------------------------------------------------------------------------
(* HR routes (hr_routes.py): inputs *)

All == <<"a", "l", "l">>
New == <<"n", "e", "w">>
Shortlisted == <<"s", "h", "o", "r", "t", "l", "i", "s", "t", "e", "d">>
Rejected == <<"r", "e", "j", "e", "c", "t", "e", "d">>
Final == <<"f", "i", "n", "a", "l">>
Hired == <<"h", "i", "r", "e", "d">>

valid_states == { New, Shortlisted, Rejected, Final, Hired }

\* the {state} path parameters tried: accepted ones, a capitalised one, an unknown one
StateArgs == { New, Shortlisted, Hired, <<"H", "i", "r", "e", "d">>, <<"o", "n", "h", "o", "l", "d">> }

CandidateRole == <<"c", "a", "n", "d", "i", "d", "a", "t", "e">>

\* the role column as text
RoleText(role) == IF role = "candidate" THEN CandidateRole ELSE <<"h", "r">>

\* users as verify_signup leaves them after two candidates signed up
SignedUp ==
    { [email |-> <<"a", "@", "x">>, username |-> <<"a">>, role |-> "candidate"],
      [email |-> <<"a", "@", "y">>, username |-> <<"a", "1">>, role |-> "candidate"] }

\* the score columns the other tables may hold for one user
InterviewRowSets == { << >>, <<40, 43>> }
MockRowSets == { << >>, <<35, 40>> }
ResumeRowSets == { << >>, <<42>> }

\* query parameters of GET /hr/candidates
Searches == { NoText, <<"Y">>, <<"1">> }
RoleArgs == { NoText, <<"A", "l", "l">>, <<"C", "a", "n", "d", "i", "d", "a", "t", "e">>, <<"h", "r">> }
MinScores == { JNull, JInt(0), JInt(33) }
StatusArgs == { NoText, All, <<"A", "L", "L">>, <<"H", "i", "r", "e", "d">> }

HResponse(op, email, state, status, detail, out) ==
    [op |-> op, email |-> email, state |-> state, status |-> status, detail |-> detail,
     out |-> out]

----------------------------------------------------------------------------
(* HR routes: filter_sort_candidates *)

\* "if search:", "if role", "if status" on an optional text
TruthyText(s) == s # NoText

\* "if min_score:" on an optional int
TruthyInt(v) == v.ty = "int" /\ v.n # 0

\* search in name, email or phone, lower-cased; a NULL phone counts as ""
MatchesSearch(c, search) ==
    \/ Contains(search, Lower(c.name))
    \/ Contains(search, Lower(c.email))
    \/ Contains(search, Lower(c.phone))

SearchActive(search) == TruthyText(search)

RoleActive(role) == TruthyText(role) /\ Lower(role) # All

MinScoreActive(min_score) == TruthyInt(min_score)

StatusActive(status) == TruthyText(status) /\ status # All

\* list.sort(key=overall_score, reverse=True): an earlier element a stays ahead
\* of a later element c unless the key of c is larger
StaysAheadStrict(a, c) == a.overall_score > c.overall_score

StaysAhead(a, c) == a.overall_score >= c.overall_score

RECURSIVE InsertDesc(_, _)
InsertDesc(sorted, c) ==
    IF sorted = << >> THEN <<c>>
    ELSE IF StaysAhead(Head(sorted), c) THEN <<Head(sorted)>> \o InsertDesc(Tail(sorted), c)
    ELSE <<c>> \o sorted

RECURSIVE SortDesc(_)
SortDesc(l) ==
    IF l = << >> THEN << >>
    ELSE InsertDesc(SortDesc(SubSeq(l, 1, Len(l) - 1)), l[Len(l)])

\* the call: what it returns, and what the caller's list object holds afterwards.
\* Each active filter binds the name candidates to a new list; the sort is in
\* place on whatever list the name is bound to at that point.
filter_sort_candidates(candidates, search, role, min_score, status) ==
    LET s1 == IF SearchActive(search)
              THEN SelectSeq(candidates, LAMBDA c : MatchesSearch(c, Lower(search)))
              ELSE candidates
        s2 == IF RoleActive(role)
              THEN SelectSeq(s1, LAMBDA c : Lower(c.role) = Lower(role))
              ELSE s1
        s3 == IF MinScoreActive(min_score)
              THEN SelectSeq(s2, LAMBDA c : c.overall_score >= min_score.n)
              ELSE s2
        s4 == IF StatusActive(status)
              THEN SelectSeq(s3, LAMBDA c : Lower(c.status) = Lower(status))
              ELSE s3
        rebound == \/ SearchActive(search) \/ RoleActive(role)
                   \/ MinScoreActive(min_score) \/ StatusActive(status)
    IN  [returned |-> SortDesc(s4),
         caller |-> IF rebound THEN candidates ELSE SortDesc(s4)]

----------------------------------------------------------------------------
(* HR routes: get_candidates, update_status *)

\* int(sum(interview_scores)/len(interview_scores)) on scores >= 0: the double
\* nearest to the quotient of two small integers truncates to their integer quotient
InterviewAvg(interview_scores) ==
    IF interview_scores = << >> THEN 0
    ELSE SumSeq(interview_scores) \div Len(interview_scores)

RECURSIVE MaxSeq(_)
MaxSeq(xs) ==
    IF Len(xs) = 1 THEN xs[1]
    ELSE IF Head(xs) >= MaxSeq(Tail(xs)) THEN Head(xs) ELSE MaxSeq(Tail(xs))

\* SELECT MAX(score): NULL without rows, and a NULL or 0 maximum counts as 0
MockScore(mock_rows) == IF mock_rows = << >> THEN 0 ELSE MaxSeq(mock_rows)

\* resume_row[0][0] if resume_row else 0
ResumeScore(resume_rows) == IF resume_rows = << >> THEN 0 ELSE resume_rows[1]

\* the overall score on the values the tables of the model can produce
OverallScores ==
    [ia \in { InterviewAvg(x) : x \in InterviewRowSets },
     m \in { MockScore(x) : x \in MockRowSets },
     r \in { ResumeScore(x) : x \in ResumeRowSets } |-> OverallScore(ia, m, r)]

\* status_row[0][0] if status_row else "new"
CandStatus(rows, email) ==
    IF \E r \in rows : r.email = email
    THEN (CHOOSE r \in rows : r.email = email).status
    ELSE New

\* the dict get_candidates appends for one row of users
Candidate(email, username, phone, role, resume_score, mock_score, interview_avg, cand_status) ==
    [email |-> email, name |-> username, phone |-> phone, role |-> role,
     resume_score |-> resume_score, mock_score |-> mock_score,
     interview_score |-> interview_avg,
     overall_score |-> OverallScores[interview_avg, mock_score, resume_score],
     status |-> cand_status]

\* one pass of the loop of get_candidates; signup leaves the phone column NULL
CandidateSummary(row) ==
    Candidate(row.email, row.username, NoText, RoleText(row.role),
              ResumeScore(resumes[row.email]), MockScore(mock_reports[row.email]),
              InterviewAvg(interviews[row.email]), CandStatus(hr_status, row.email))

\* the orders in which a SELECT without ORDER BY may return the rows
Orderings(S) ==
    { f \in [1..Cardinality(S) -> S] : \A i, j \in 1..Cardinality(S) : i # j => f[i] # f[j] }

InitHRIdle ==
    /\ hr_status = {}
    /\ last_status = [e \in Emails |-> NoText]
    /\ interviews = [e \in Emails |-> << >>]
    /\ mock_reports = [e \in Emails |-> << >>]
    /\ resumes = [e \in Emails |-> << >>]
    /\ hresp = HResponse("init", NoText, NoText, 0, None, << >>)

\* the tables no route of the model writes hold any of the contents above
InitHR ==
    /\ hr_status = {}
    /\ last_status = [e \in Emails |-> NoText]
    /\ interviews \in [Emails -> InterviewRowSets]
    /\ mock_reports \in [Emails -> MockRowSets]
    /\ resumes \in [Emails -> ResumeRowSets]
    /\ hresp = HResponse("init", NoText, NoText, 0, None, << >>)

get_candidates(rows, search, role, min_score, status) ==
    LET candidates == [i \in DOMAIN rows |-> CandidateSummary(rows[i])]
    IN  /\ hresp' = HResponse("get_candidates", NoText, NoText, 200, None,
              filter_sort_candidates(candidates, search, role, min_score, status).returned)
        /\ UNCHANGED <<hr_status, last_status, interviews, mock_reports, resumes,
                       authVars, mockVars, filterVars, moreVars>>

\* INSERT OR REPLACE INTO hr_status(email, status), email being the key of the table
HrStatusReplace(rows, email, state) ==
    { r \in rows : r.email # email } \cup { [email |-> email, status |-> state] }

ValidStateAny(state) == TRUE

ValidState(state) == state \in valid_states

update_status(email, state) ==
    IF ~ ValidState(state)
    THEN /\ hresp' = HResponse("update_status", email, state, 400, "Invalid status", << >>)
         /\ UNCHANGED <<hr_status, last_status, interviews, mock_reports, resumes,
                        authVars, mockVars, filterVars, moreVars>>
    ELSE /\ hr_status' = HrStatusReplace(hr_status, email, state)
         /\ last_status' = [last_status EXCEPT ![email] = state]
         /\ hresp' = HResponse("update_status", email, state, 200, None, << >>)
         /\ UNCHANGED <<interviews, mock_reports, resumes, authVars, mockVars, filterVars, moreVars>>

----------------------------------------------------------------------------
(* filter_sort_candidates called on a list the caller keeps *)

\* candidate summaries as get_candidates builds them
Pool ==
    { Candidate(<<"a", "@", "x">>, <<"a">>, NoText, CandidateRole, 42, 40, 41, New),
      Candidate(<<"a", "@", "y">>, <<"a", "1">>, NoText, CandidateRole, 42, 40, 41, Hired),
      Candidate(<<"b", "@", "x">>, <<"b">>, NoText, CandidateRole, 42, 40, 0, Hired),
      Candidate(<<"b", "@", "y">>, <<"b", "1">>, NoText, CandidateRole, 0, 40, 41, New) }

\* lists of distinct candidates, in any order
CandLists ==
    UNION { Orderings(S) : S \in { T \in SUBSET Pool : Cardinality(T) <= MaxCands } }

NoCallYet == [done |-> FALSE, candidates |-> << >>, search |-> NoText, role |-> NoText,
              min_score |-> JNull, status |-> NoText, returned |-> << >>]

InitFilterIdle ==
    /\ caller_list = << >>
    /\ fresp = NoCallYet

InitFilter ==
    /\ caller_list \in CandLists
    /\ fresp \in { [NoCallYet EXCEPT !.candidates = caller_list, !.search = s, !.role = r,
                                      !.min_score = m, !.status = st] :
                      s \in Searches, r \in RoleArgs, m \in MinScores, st \in StatusArgs }

\* the caller passes its list and keeps the reference
filter_sort_call ==
    /\ ~ fresp.done
    /\ LET r == filter_sort_candidates(caller_list, fresp.search, fresp.role,
                                       fresp.min_score, fresp.status)
       IN  /\ caller_list' = r.caller
           /\ fresp' = [fresp EXCEPT !.done = TRUE, !.returned = r.returned]
    /\ UNCHANGED <<authVars, mockVars, hrVars, moreVars>>

----------------------------------------------------------------------------
(* Resume analyzer (resume_routes.py) *)

\* The text of a PDF page is a sequence of runs: n copies of a blank or of a
\* printing character
Run(ch, n) == [ch |-> ch, n |-> n]

\* page.extract_text() or "": a page without text gives None
NoPageText == << Run("None", 0) >>
PageText(page) == IF page = NoPageText THEN << >> ELSE page

\* text += ... over reader.pages
RECURSIVE ConcatPages(_)
ConcatPages(pages) ==
    IF pages = << >> THEN << >> ELSE PageText(Head(pages)) \o ConcatPages(Tail(pages))

\* str.strip() on runs
RECURSIVE StripRuns(_)
StripRuns(t) ==
    IF t # << >> /\ (Head(t).ch = " " \/ Head(t).n = 0) THEN StripRuns(Tail(t))
    ELSE IF t # << >> /\ (t[Len(t)].ch = " " \/ t[Len(t)].n = 0)
    THEN StripRuns(SubSeq(t, 1, Len(t) - 1))
    ELSE t

\* len(text)
RECURSIVE TextLen(_)
TextLen(t) == IF t = << >> THEN 0 ELSE Head(t).n + TextLen(Tail(t))

\* an upload PdfReader cannot read
Unreadable == << << Run("corrupt", 0) >> >>

\* extract_text_from_pdf(file): the stripped text, or HTTPException(400)
extract_text_from_pdf(pages) ==
    IF pages = Unreadable THEN [ok |-> FALSE, text |-> << >>]
    ELSE [ok |-> TRUE, text |-> StripRuns(ConcatPages(pages))]

\* shortest resume text analyze_resume accepts
MIN_RESUME_CHARS == 150

TooShortNever(resume_text) == FALSE

\* len(resume_text) < 150
TooShort(resume_text) == TextLen(resume_text) < MIN_RESUME_CHARS

\* s.endswith(suffix)
EndsWith(s, suffix) ==
    Len(s) >= Len(suffix) /\ SubSeq(s, Len(s) - Len(suffix) + 1, Len(s)) = suffix

\* file.filename.lower().endswith(".pdf")
IsPdfName(filename) == EndsWith(Lower(filename), <<".", "p", "d", "f">>)

\* HTTPException(500, ...) as the outcome of a parse
Http500 == [kind |-> "http", d |-> << >>, v |-> JInt(500)]

\* extract_json that answers the empty object when nothing parses
extract_json_lenient(text) ==
    LET strict == json_loads(text)
        span == IF text = NoneText THEN << >> ELSE regex_span(text)
        loose == IF span = << >> THEN Raised ELSE json_loads(span)
    IN  IF strict.kind # "raise" THEN strict
        ELSE IF loose.kind # "raise" THEN loose
        ELSE Dict(<< >>)

\* extract_json(text): json.loads, else json.loads of the span re.search finds
\* from the first "{" to the last "}". Without a span HTTPException(500); a
\* span that does not parse, and a content of None, raise
extract_json(text) ==
    LET strict == json_loads(text) IN
    IF strict.kind # "raise" THEN strict
    ELSE IF text = NoneText THEN Raised
    ELSE LET span == regex_span(text)
         IN  IF span = << >> THEN Http500 ELSE json_loads(span)

\* int(analysis.get("ats_score", 0)): the number, 0 for a missing key, and an
\* exception for null, for a word, and for an analysis that is no dict
AtsScore(analysis) ==
    IF analysis.kind # "dict" THEN Raised
    ELSE IF "ats_score" \notin DOMAIN analysis.d THEN Scalar(JInt(0))
    ELSE IF analysis.d["ats_score"].ty = "int" THEN Scalar(analysis.d["ats_score"])
    ELSE Raised

\* uploads: the file name and the pages
Filenames == { <<"c", "v", ".", "P", "D", "F">>, <<"c", "v", ".", "t", "x", "t">> }

Uploads ==
    { Unreadable,
      << <<Run(" ", 10), Run("x", 149)>> >>,
      << <<Run("x", 150)>> >>,
      << <<Run("x", 100)>>, NoPageText, <<Run("x", 50)>> >>,
      << <<Run("x", 100), Run(" ", 60)>> >>,
      << <<Run(" ", 200)>> >> }

\* what the chat completion does: it raises, or it returns a content
ResumeReplies ==
    { [kind |-> "raise", content |-> << >>],
      [kind |-> "ok", content |-> NoneText],
      [kind |-> "ok", content |-> <<LB, Member("ats_score", JInt(70)), RB>>],
      [kind |-> "ok", content |-> <<Prose, LB, Member("ats_score", JInt(70)), RB, Prose>>],
      [kind |-> "ok", content |-> <<Prose>>],
      [kind |-> "ok", content |-> <<LB, Prose, RB>>],
      [kind |-> "ok", content |-> <<LB, Member("ats_score", JInt(70)), RB, Prose,
                                    LB, Member("ats_score", JInt(70)), RB>>],
      [kind |-> "ok", content |-> <<Num(7)>>],
      [kind |-> "ok", content |-> <<LB, RB>>],
      [kind |-> "ok", content |-> <<LB, Member("ats_score", JStr("high")), RB>>] }

NoReply == [kind |-> "none", content |-> << >>]

\* a response: the request, what came back, and (ai) what the completion had done
RResponse(op, pages, email, ai, status, detail, analysis) ==
    [op |-> op, pages |-> pages, email |-> email, ai |-> ai, status |-> status,
     detail |-> detail, analysis |-> analysis]

InitResumeIdle ==
    /\ resume_client = FALSE
    /\ resume_analysis = << >>
    /\ rresp = RResponse("init", << >>, NoText, NoReply, 0, None, Raised)

InitResume ==
    /\ resume_client \in BOOLEAN
    /\ resume_analysis = << >>
    /\ rresp = RResponse("init", << >>, NoText, NoReply, 0, None, Raised)

\* the response of analyze_resume and the row it inserts, if any
AnalyzeOutcome(filename, pages, email, ai) ==
    LET extracted == extract_text_from_pdf(pages)
        analysis == extract_json(ai.content)
        ats_score == AtsScore(analysis)
        Refuse(status, detail, called) ==
            [resp |-> RResponse("analyze_resume", pages, email,
                                IF called THEN ai ELSE NoReply, status, detail, Raised),
             rows |-> << >>]
    IN  IF ~ IsPdfName(filename) THEN Refuse(400, "Only PDF allowed", FALSE)
        ELSE IF ~ extracted.ok THEN Refuse(400, "PDF must be text-based (not scanned)", FALSE)
        ELSE IF TooShort(extracted.text) THEN Refuse(400, "Resume text too short", FALSE)
        ELSE IF ~ resume_client THEN Refuse(503, "AI service not configured", FALSE)
        ELSE IF ai.kind = "raise" THEN Refuse(500, "Resume analysis failed", TRUE)
        ELSE IF analysis.kind = "http" THEN Refuse(500, "AI did not return JSON", TRUE)
        ELSE IF analysis.kind = "raise" \/ ats_score.kind = "raise"
        THEN Refuse(500, "Resume analysis failed", TRUE)
        ELSE [resp |-> RResponse("analyze_resume", pages, email, ai, 200, None, analysis),
              rows |-> IF email # NoText
                       THEN << [email |-> email, ats_score |-> ats_score.v.n] >>
                       ELSE << >>]

analyze_resume(filename, pages, email, ai) ==
    LET o == AnalyzeOutcome(filename, pages, email, ai) IN
    /\ Len(resume_analysis) + Len(o.rows) <= MaxAnalyses
    /\ resume_analysis' = resume_analysis \o o.rows
    /\ rresp' = o.resp
    /\ UNCHANGED <<resume_client, authVars, mockVars, hrVars, filterVars, uploadVars, wsVars>>

----------------------------------------------------------------------------
(* Resume upload (main.py) *)

\* email.replace('@', '_')
ReplaceAt(email) == [i \in DOMAIN email |-> IF email[i] = "@" THEN "_" ELSE email[i]]

\* f"{email.replace('@','_')}_{file.filename}"
ResumeFilename(email, name) == ReplaceAt(email) \o <<"_">> \o name

UploadEmails == { <<"a", "@", "x">>, <<"a", "@", "y">>, <<"b", "@", "x">> }

UploadNames == { <<"c", "v">>, <<"c", "v", "2">> }

UResponse(op, email, filename, status) ==
    [op |-> op, email |-> email, filename |-> filename, status |-> status]

\* init_db creates users without a column resume
InitUploadIdle ==
    /\ resume_col = FALSE
    /\ user_resume = << >>
    /\ uploads = {}
    /\ uresp = UResponse("init", NoText, NoText, 0)

InitUpload ==
    /\ resume_col = FALSE
    /\ user_resume = [e \in { u.email : u \in SignedUp } |-> NoText]
    /\ uploads = {}
    /\ uresp = UResponse("init", NoText, NoText, 0)

\* ALTER TABLE users ADD COLUMN resume TEXT: sqlite3.OperationalError
\* (duplicate column name) when the column is there
AlterFails(has_column) == has_column

\* UPDATE users SET resume=? WHERE email=?
SetResume(column, email, filename) ==
    [e \in DOMAIN column |-> IF e = email THEN filename ELSE column[e]]

\* the file is written first; the exception of ALTER TABLE is not caught
upload_resume(email, name) ==
    LET filename == ResumeFilename(email, name) IN
    /\ uploads' = uploads \cup { filename }
    /\ IF AlterFails(resume_col)
       THEN /\ uresp' = UResponse("upload_resume", email, filename, 500)
            /\ UNCHANGED <<resume_col, user_resume>>
       ELSE /\ resume_col' = TRUE
            /\ user_resume' = SetResume(user_resume, email, filename)
            /\ uresp' = UResponse("upload_resume", email, filename, 200)
    /\ UNCHANGED <<authVars, mockVars, hrVars, filterVars, resumeVars, wsVars>>

----------------------------------------------------------------------------
(* Real-time interview: one connection to /ws/interview, served by           *)
(* interview_ws of main.py or by interview_socket of interview_coach.py      *)

\* what the client sends: the n-th message of the connection and its action;
\* "disconnect" is the close of the socket
MsgKinds == { "start", "answer", "end", "other", "disconnect" }
Msg(kind, n) == [kind |-> kind, n |-> n]
NoMsg == Msg("none", 0)

\* an outbound frame, with the inbound message it answers
Frame(type, turn, what) == [type |-> type, turn |-> turn, what |-> what]

\* a text frame, and the audio frame when the speech synthesis delivers
Spoken(turn, what) ==
    <<Frame("text_response", turn, what)>>
        \o (IF voice_ok THEN <<Frame("audio", turn, what)>> ELSE << >>)

\* id(ws) of the one connection
ConnSid == 1

\* last_question: None, the initial question, the follow-up of answer n
Question(kind, n) == [kind |-> kind, n |-> n]
NoQuestion == Question("none", 0)

\* what a call of the remote model does: it fails (unreachable, timeout), or
\* it returns a content
Full ==
    <<LB, Member("technical_score", JInt(8)), Member("grammar_score", JInt(7)),
      Member("posture_score", JInt(6)), Member("feedback", JStr("ok")),
      Member("improved_answer", JStr("better")), RB>>

EvalOutcomes ==
    { [kind |-> "raise", content |-> << >>],
      [kind |-> "ok", content |-> NoneText],
      [kind |-> "ok", content |-> <<Prose>>],
      [kind |-> "ok", content |-> <<Prose>> \o Full],
      [kind |-> "ok", content |-> <<LB, Member("feedback", JStr("ok")), RB>>],
      [kind |-> "ok", content |-> SelectSeq(Full, LAMBDA t : t.k # "feedback")] }

QuestionOutcomes ==
    { [kind |-> "raise", content |-> << >>],
      [kind |-> "ok", content |-> NoneText],
      [kind |-> "ok", content |-> <<Prose>>] }

ReportOutcomes ==
    { [kind |-> "raise", content |-> << >>],
      [kind |-> "ok", content |-> <<Prose>>],
      [kind |-> "ok", content |-> <<LB, Member("score", JInt(80)),
                                    Member("spoken_summary", JStr("bye")), RB>>],
      [kind |-> "ok", content |-> <<LB, Member("score", JInt(80)), RB>>] }

\* sn_generate: the content, or the apology text when the call fails
sn_generate(o) == IF o.kind = "raise" THEN <<Prose>> ELSE o.content

\* raw[raw.index("{"): raw.rindex("}") + 1] parsed; the empty text stands for
\* every exception on the way (None, no brace, an empty slice)
BraceSlice(raw) == IF raw = NoneText THEN << >> ELSE regex_span(raw)

EvalKeys == { "technical_score", "grammar_score", "posture_score", "grammar_mistakes",
              "feedback", "improved_answer" }

\* the default of evaluate_answer
EvalDefault ==
    Dict([k \in EvalKeys |->
            CASE k \in { "technical_score", "grammar_score", "posture_score" } -> JInt(6)
              [] k = "grammar_mistakes" -> JNull
              [] k = "feedback" -> JStr("Good attempt")
              [] k = "improved_answer" -> JStr("Try explaining step-by-step")])

\* evaluate_answer: the parsed object as it is, or the default
evaluate_answer(o) ==
    LET slice == BraceSlice(sn_generate(o))
        parsed == IF slice = << >> THEN Raised ELSE json_loads(slice)
    IN  IF parsed.kind = "raise" THEN EvalDefault ELSE parsed

\* the default of generate_report
ReportDefault ==
    Dict([k \in { "score", "spoken_summary" } |->
            IF k = "score" THEN JInt(72) ELSE JStr("This concludes your interview.")])

\* generate_report
generate_report(o) ==
    LET slice == BraceSlice(sn_generate(o))
        parsed == IF slice = << >> THEN Raised ELSE json_loads(slice)
    IN  IF parsed.kind = "raise" THEN ReportDefault ELSE parsed

restOfWs == <<authVars, mockVars, hrVars, filterVars, resumeVars, uploadVars>>

WsIdle ==
    [pc |-> "connect", inbox |-> << >>, nsent |-> 0, cur |-> NoMsg, out |-> << >>,
     why |-> "", ai |-> NoReply]

IvIdle ==
    [interview_state |-> "idle", history |-> << >>, last_question |-> NoQuestion,
     nans |-> 0, unheard |-> {}]

InitWsIdle ==
    /\ route = "main"
    /\ voice_ok = FALSE
    /\ ws = WsIdle
    /\ iv = IvIdle
    /\ active = << >>

\* the socket path is bound to one of the two handlers; the speech synthesis
\* is up or down for the connection
InitWs ==
    /\ route \in { "main", "coach" }
    /\ voice_ok \in BOOLEAN
    /\ ws = WsIdle
    /\ iv = IvIdle
    /\ active = << >>

\* ws.accept(); interview_socket registers the session in active
ws_accept ==
    /\ ws.pc = "connect"
    /\ ws' = [ws EXCEPT !.pc = "recv"]
    /\ active' = IF route = "coach" THEN [s \in { ConnSid } |-> << >>] ELSE active
    /\ UNCHANGED <<route, voice_ok, iv, restOfWs>>

\* the client sends a message, at any time while it has not closed the socket
client_send(kind) ==
    /\ ws.pc # "connect"
    /\ ws.nsent < MaxMsgs
    /\ \A i \in DOMAIN ws.inbox : ws.inbox[i].kind # "disconnect"
    /\ ws.why # "disconnect"
    /\ ws' = [ws EXCEPT !.inbox = Append(@, Msg(kind, ws.nsent + 1)), !.nsent = @ + 1]
    /\ UNCHANGED <<route, voice_ok, iv, active, restOfWs>>

\* the handler takes a message while a turn is still in progress
RecvReadyAlways(at) == at \notin { "connect", "ended" }

\* the handler is at "await ws.receive()"
RecvReady(at) == at = "recv"

\* the handler stops on an exception it did not expect
Crash(o) == [ws EXCEPT !.pc = "ended", !.why = "error", !.ai = o]

(* interview_ws of main.py *)

\* raw = await ws.receive() and the dispatch on the action
main_receive ==
    /\ route = "main"
    /\ RecvReady(ws.pc)
    /\ ws.inbox # << >>
    /\ LET m == Head(ws.inbox)
           heard == m.kind = "answer" /\ iv.interview_state = "active"
       IN  /\ ws' = [ws EXCEPT
                  !.inbox = Tail(@),
                  !.cur = m,
                  !.pc = CASE m.kind = "disconnect" -> "ended"
                           [] m.kind = "start" -> "start"
                           [] heard -> "eval"
                           [] m.kind = "end" -> "report"
                           [] OTHER -> "recv",
                  !.why = IF m.kind = "disconnect" THEN "disconnect" ELSE @]
           /\ iv' = [iv EXCEPT
                  !.interview_state = CASE m.kind = "start" -> "active"
                                        [] m.kind = "end" -> "finished"
                                        [] OTHER -> @,
                  !.nans = IF heard THEN @ + 1 ELSE @,
                  !.unheard = IF m.kind = "answer" /\ ~ heard THEN @ \cup { m.n } ELSE @]
    /\ UNCHANGED <<route, voice_ok, active, restOfWs>>

\* the greeting and the first question
main_start ==
    /\ route = "main"
    /\ ws.pc = "start"
    /\ ws' = [ws EXCEPT !.pc = "recv",
                        !.out = @ \o Spoken(ws.cur.n, "greeting") \o Spoken(ws.cur.n, "question")]
    /\ iv' = [iv EXCEPT !.last_question = Question("initial", 0)]
    /\ UNCHANGED <<route, voice_ok, active, restOfWs>>

\* evaluate_answer, history.append, the feedback
main_evaluate(o) ==
    /\ route = "main"
    /\ ws.pc = "eval"
    /\ LET eval_data == evaluate_answer(o)
           entry == [question |-> iv.last_question, answer |-> ws.cur.n,
                     technical |-> DictGet(eval_data.d, "technical_score")]
       IN  IF ~ ({ "technical_score", "grammar_score", "posture_score", "improved_answer" }
                    \subseteq DOMAIN eval_data.d)
           THEN ws' = Crash(o) /\ UNCHANGED iv
           ELSE /\ iv' = [iv EXCEPT !.history = Append(@, entry)]
                /\ IF "feedback" \notin DOMAIN eval_data.d
                   THEN ws' = Crash(o)
                   ELSE ws' = [ws EXCEPT !.pc = "nextq", !.ai = o,
                                         !.out = @ \o Spoken(ws.cur.n, "feedback")]
    /\ UNCHANGED <<route, voice_ok, active, restOfWs>>

\* generate_next_question and the next question
main_next_question(o) ==
    /\ route = "main"
    /\ ws.pc = "nextq"
    /\ IF sn_generate(o) = NoneText
       THEN ws' = Crash(o) /\ UNCHANGED iv
       ELSE /\ ws' = [ws EXCEPT !.pc = "recv", !.ai = o,
                                !.out = @ \o Spoken(ws.cur.n, "next_question")]
            /\ iv' = [iv EXCEPT !.last_question = Question("followup", ws.cur.n)]
    /\ UNCHANGED <<route, voice_ok, active, restOfWs>>

\* generate_report, the spoken summary, the report, break
main_report(o) ==
    /\ route = "main"
    /\ ws.pc = "report"
    /\ LET report == generate_report(o) IN
       IF "spoken_summary" \notin DOMAIN report.d
       THEN ws' = Crash(o)
       ELSE ws' = [ws EXCEPT !.pc = "ended", !.why = "end", !.ai = o,
                             !.out = @ \o Spoken(ws.cur.n, "summary")
                                       \o <<Frame("report", ws.cur.n, "report")>>]
    /\ UNCHANGED <<route, voice_ok, iv, active, restOfWs>>

(* interview_socket of interview_coach.py *)

Said(role, turn) == [role |-> role, turn |-> turn]

\* data = await ws.receive_json() and the dispatch on the action; an answer
\* is appended to the history before the model is called
coach_receive ==
    /\ route = "coach"
    /\ RecvReady(ws.pc)
    /\ ws.inbox # << >>
    /\ LET m == Head(ws.inbox) IN
       /\ ws' = [ws EXCEPT
              !.inbox = Tail(@),
              !.cur = m,
              !.pc = CASE m.kind = "disconnect" -> "ended"
                       [] m.kind = "start" -> "c_start"
                       [] m.kind = "answer" -> "c_answer"
                       [] m.kind = "end" -> "c_end"
                       [] OTHER -> "recv",
              !.why = IF m.kind = "disconnect" THEN "disconnect" ELSE @]
       /\ active' = IF m.kind = "answer"
                    THEN [active EXCEPT ![ConnSid] = Append(@, Said("user", m.n))]
                    ELSE active
    /\ UNCHANGED <<route, voice_ok, iv, restOfWs>>

\* the opening
coach_start ==
    /\ route = "coach"
    /\ ws.pc = "c_start"
    /\ active' = [active EXCEPT ![ConnSid] = Append(@, Said("assistant", ws.cur.n))]
    /\ ws' = [ws EXCEPT !.pc = "recv", !.out = @ \o Spoken(ws.cur.n, "opening")]
    /\ UNCHANGED <<route, voice_ok, iv, restOfWs>>

\* the completion and the reply; an exception of the call ends the handler
coach_answer(o) ==
    /\ route = "coach"
    /\ ws.pc = "c_answer"
    /\ IF o.kind = "raise"
       THEN ws' = Crash(o) /\ UNCHANGED active
       ELSE /\ active' = [active EXCEPT ![ConnSid] = Append(@, Said("assistant", ws.cur.n))]
            /\ ws' = [ws EXCEPT !.pc = "recv", !.ai = o,
                                !.out = @ \o Spoken(ws.cur.n, "reply")]
    /\ UNCHANGED <<route, voice_ok, iv, restOfWs>>

\* the report: json.loads of the reply, the spoken summary, the report; the
\* loop goes on
coach_end(o) ==
    /\ route = "coach"
    /\ ws.pc = "c_end"
    /\ LET report_obj == IF o.kind = "raise" THEN Raised ELSE json_loads(o.content) IN
       IF report_obj.kind # "dict" \/ "spoken_summary" \notin DOMAIN report_obj.d
       THEN ws' = Crash(o)
       ELSE ws' = [ws EXCEPT !.pc = "recv", !.ai = o,
                             !.out = @ \o Spoken(ws.cur.n, "summary")
                                       \o <<Frame("report", ws.cur.n, "report")>>]
    /\ UNCHANGED <<route, voice_ok, iv, active, restOfWs>>

InitMoreIdle == InitResumeIdle /\ InitUploadIdle /\ InitWsIdle

----------------------------------------------------------------------------
(* Specifications *)

InitSignup == InitAuth /\ InitMockIdle /\ InitHRIdle /\ InitFilterIdle /\ InitMoreIdle

SpecAuth == InitSignup /\ [][NextAuth]_vars

InitInterview == InitAuth /\ InitMock /\ InitHRIdle /\ InitFilterIdle /\ InitMoreIdle

NextMock ==
    \/ \E sk \in SkillLists, e \in Experiences, ai \in StartOutcomes :
            start_interview(sk, e, ai)
    \/ \E sid \in SessionIds \cup {GhostId}, ai \in AnswerOutcomes : submit_answer(sid, ai)
    \/ \E sid \in SessionIds \cup {GhostId} : get_report(sid)

SpecMock == InitInterview /\ [][NextMock]_vars

\* the signup flow at rest with two candidates in users
InitSignedUp ==
    /\ otps = {}
    /\ users = SignedUp
    /\ now = 0
    /\ pc = [w \in Workers |-> "idle"]
    /\ loc = [w \in Workers |-> NoLoc]
    /\ resp = Response("init", NoText, None, 0, None)
    /\ sent = [k \in Keys |-> [code |-> None, exp |-> 0, old |-> None]]
    /\ nsend = 0

InitHRSpec == InitSignedUp /\ InitMockIdle /\ InitHR /\ InitFilterIdle /\ InitMoreIdle

\* the query parameters tried through the route
HrSearches == { NoText, <<"1">> }
HrMinScores == { JNull, JInt(33) }
HrStatusArgs == { NoText, <<"H", "i", "r", "e", "d">> }

NextHR ==
    \/ \E e \in Emails, state \in StateArgs : update_status(e, state)
    \/ \E rows \in Orderings({ u \in users : u.role = "candidate" }),
          s \in HrSearches, m \in HrMinScores, st \in HrStatusArgs :
            get_candidates(rows, s, NoText, m, st)

SpecHR == InitHRSpec /\ [][NextHR]_vars

InitFilterSpec == InitAuth /\ InitMockIdle /\ InitHRIdle /\ InitFilter /\ InitMoreIdle

NextFilter == filter_sort_call

SpecFilter == InitFilterSpec /\ [][NextFilter]_vars

InitResumeSpec ==
    InitAuth /\ InitMockIdle /\ InitHRIdle /\ InitFilterIdle /\ InitResume /\ InitUploadIdle
        /\ InitWsIdle

ResumeEmails == { NoText, <<"a", "@", "x">> }

NextResume ==
    \E f \in Filenames, pages \in Uploads, e \in ResumeEmails, ai \in ResumeReplies :
        analyze_resume(f, pages, e, ai)

SpecResume == InitResumeSpec /\ [][NextResume]_vars

InitUploadSpec ==
    InitSignedUp /\ InitMockIdle /\ InitHRIdle /\ InitFilterIdle /\ InitResumeIdle /\ InitUpload
        /\ InitWsIdle

NextUpload == \E e \in UploadEmails, name \in UploadNames : upload_resume(e, name)

SpecUpload == InitUploadSpec /\ [][NextUpload]_vars

InitWsSpec ==
    InitAuth /\ InitMockIdle /\ InitHRIdle /\ InitFilterIdle /\ InitResumeIdle /\ InitUploadIdle
        /\ InitWs

NextWs ==
    \/ ws_accept
    \/ \E kind \in MsgKinds : client_send(kind)
    \/ main_receive
    \/ main_start
    \/ \E o \in EvalOutcomes : main_evaluate(o)
    \/ \E o \in QuestionOutcomes : main_next_question(o)
    \/ \E o \in ReportOutcomes : main_report(o)
    \/ coach_receive
    \/ coach_start
    \/ \E o \in QuestionOutcomes : coach_answer(o)
    \/ \E o \in ReportOutcomes : coach_end(o)

SpecWs == InitWsSpec /\ [][NextWs]_vars

----------------------------------------------------------------------------
(* Properties of the signup flow *)

\* a step that ran the first part of verify_signup for (resp'.email, resp'.otp)
CheckStep ==
    \/ resp'.op = "verify_signup_check"
    \/ resp'.op = "verify_signup" /\ resp'.status = 400

\* worker w committed the INSERT INTO users in this step
Created(w) == pc[w] = "insert" /\ pc'[w] = "idle" /\ users' # users

\* C1: after any sequence of send_otp and verify_signup calls the otps table
\* holds at most one code for each (email, purpose) pair.
C1_OneCodePerPair ==
    \A r1 \in otps, r2 \in otps :
        (r1.email = r2.email /\ r1.purpose = r2.purpose) => r1 = r2

\* a pair was re-requested with another code, and its row is stored
C1_Witness ==
    \E k \in Keys :
        /\ sent[k].old # None
        /\ sent[k].old # sent[k].code
        /\ OtpRows(otps, k[1], k[2]) # {}

\* C2 as stated: once a second send_otp has replaced the code of (email,
\* signup), a verify_signup submitting the replaced code creates no account.
C2_OldCodeNeverVerifies ==
    [][\A w \in Workers :
          (Created(w) /\ loc[w].old # None) => loc[w].otp # loc[w].old]_vars

\* C2 amended: a verify_signup that submits the replaced code is answered 400
\* and goes no further, unless send_otp drew the same digits again.
C2_OldCodeRejectedUnlessRedrawn ==
    [][LET s == sent[<<resp'.email, "signup">>] IN
       (CheckStep /\ s.old # None /\ resp'.otp = s.old /\ s.old # s.code)
          => (resp'.status = 400 /\ users' = users /\ pc' = pc)]_vars

\* the replaced code was submitted and refused as invalid
C2_Witness ==
    /\ resp.op = "verify_signup"
    /\ resp.detail = "Invalid OTP"
    /\ resp.otp = sent[<<resp.email, "signup">>].old
    /\ resp.otp # sent[<<resp.email, "signup">>].code

\* C3 as stated: "Invalid OTP" whenever the submitted code differs from the
\* stored one, "OTP expired" whenever the clock is past the stored expiry;
\* in both cases no account is created and the stored record is unchanged.
C3_InvalidWheneverDiffers ==
    [][\A row \in OtpRows(otps, resp'.email, "signup") :
          CheckStep =>
            /\ (row.code # resp'.otp) => resp'.detail = "Invalid OTP"
            /\ (now > row.expires_at) => resp'.detail = "OTP expired"
            /\ (row.code # resp'.otp \/ now > row.expires_at) =>
                   (resp'.status = 400 /\ users' = users /\ otps' = otps /\ pc' = pc)]_vars

\* C3 amended: the expiry test comes first, so "Invalid OTP" is the answer
\* only when the code differs and the stored code has not expired.
C3_ExpiredFirstThenInvalid ==
    [][\A row \in OtpRows(otps, resp'.email, "signup") :
          CheckStep =>
            /\ (row.code # resp'.otp /\ ~ (now > row.expires_at)) =>
                   resp'.detail = "Invalid OTP"
            /\ (now > row.expires_at) => resp'.detail = "OTP expired"
            /\ (row.code # resp'.otp \/ now > row.expires_at) =>
                   (resp'.status = 400 /\ users' = users /\ otps' = otps /\ pc' = pc)]_vars

\* the matching code was refused as expired, and its row is still stored
C3_Witness ==
    /\ resp.op = "verify_signup"
    /\ resp.detail = "OTP expired"
    /\ \E row \in OtpRows(otps, resp.email, "signup") :
          row.code = resp.otp /\ now > row.expires_at

\* C4: a successful verify_signup leaves no signup code for the email; a
\* verify_signup finding none is refused, and only send_otp stores one again.
C4_SuccessConsumesOtp ==
    [][/\ (resp'.op = "verify_signup" /\ resp'.status = 200) =>
              OtpRows(otps', resp'.email, "signup") = {}
       /\ (CheckStep /\ OtpRows(otps, resp'.email, "signup") = {}) =>
              (resp'.status = 400 /\ users' = users /\ pc' = pc)
       /\ \A e \in Emails :
              (OtpRows(otps, e, "signup") = {} /\ OtpRows(otps', e, "signup") # {}) =>
                  (resp'.op = "send_otp" /\ resp'.email = e)]_vars

\* a second verify_signup for an email that has its account found no code
C4_Witness ==
    /\ resp.op = "verify_signup"
    /\ resp.detail = "OTP not found"
    /\ EmailTaken(users, resp.email)
    /\ sent[<<resp.email, "signup">>].code = resp.otp

\* C5: an account appears only by the commit of a verify_signup for that
\* email, every verify_signup that gets past the OTP test submitted the code
\* last mailed for (email, signup) before its expiry, and no step removes or
\* rewrites an account.
C5_AccountOnlyAfterVerifiedOtp ==
    [][/\ \A e \in Emails :
              (~ EmailTaken(users, e) /\ EmailTaken(users', e)) =>
                  /\ resp'.op = "verify_signup" /\ resp'.status = 200
                  /\ \E w \in Workers : Created(w) /\ loc[w].email = e
       /\ \A w \in Workers :
              (pc[w] = "idle" /\ pc'[w] = "insert") =>
                  LET s == sent[<<loc'[w].email, "signup">>] IN
                  loc'[w].otp = s.code /\ now <= s.exp
       /\ users \subseteq users']_vars

\* an account was just created
C5_Witness ==
    /\ resp.op = "verify_signup"
    /\ resp.status = 200
    /\ EmailTaken(users, resp.email)

\* C6 as stated: when the INSERT of verify_signup would break the uniqueness
\* of email or username, the caller gets a client error "already taken" and
\* the accounts are unchanged.
C6_DuplicateIsClientError ==
    [][\A w \in Workers :
          (pc[w] = "insert" /\ pc'[w] = "idle" /\ UsersUniqueViolation(users, loc[w])) =>
              (resp'.status = 400 /\ resp'.detail = "already taken" /\ users' = users)]_vars

\* C7: no two accounts share an email and no two share a username, also when
\* two verify_signup calls are interleaved.
C7_UniqueEmailAndUsername ==
    \A u1 \in users, u2 \in users :
        (u1.email = u2.email \/ u1.username = u2.username) => u1 = u2

\* an interleaved verify_signup lost the race for a username: its INSERT was
\* refused although its email had no account
C7_Witness ==
    /\ resp.op = "verify_signup"
    /\ resp.status = 500
    /\ ~ EmailTaken(users, resp.email)
    /\ \E u \in users : LocalPart(u.email) = LocalPart(resp.email)

----------------------------------------------------------------------------
(* Properties of the mock interview *)

\* the three levels in ladder order: easy, medium, hard
Level(label) ==
    CASE label = "BEGINNER" -> 1
      [] label = "INTERMEDIATE" -> 2
      [] label = "SENIOR" -> 3

\* the ladder rule: up at score >= 8, down at score <= 4, within 1..3
Ladder(level, score) ==
    IF score >= 8 /\ level < 3 THEN level + 1
    ELSE IF score <= 4 /\ level > 1 THEN level - 1
    ELSE level

SessionLevel(rows, sid) ==
    Level(get_difficulty_instruction(SessionExperience(rows, sid)))

\* C8 as stated: after every submit_answer that scored a turn, the session's
\* difficulty is one of the three levels and is the ladder's step from the
\* difficulty before the turn.
C8_DifficultyFollowsLadder ==
    [][(/\ mresp'.op = "submit_answer"
        /\ mresp'.sid \in SessionIds
        /\ qa_history' # qa_history
        /\ qa_history'[Len(qa_history')].score.ty = "int")
          => /\ SessionLevel(sessions', mresp'.sid) \in 1..3
             /\ SessionLevel(sessions', mresp'.sid) =
                    Ladder(SessionLevel(sessions, mresp'.sid),
                           qa_history'[Len(qa_history')].score.n)]_vars

\* the opening of the fallback question
FallbackOpening ==
    "We are having trouble connecting to the AI. Let's stick to basics: What is "

\* C9: when the client is missing or the completion call raises (or comes
\* back without content), start_interview answers 200 with the id of a stored
\* session and the fallback question on the first declared skill.
C9_StartSurvivesModelOutage ==
    (/\ mresp.op = "start_interview"
     /\ (~ client \/ mresp.body.v.s \in {"raise", "none"}))
        => /\ mresp.status = 200
           /\ \E r \in sessions :
                 r.session_id = mresp.sid /\ r.skills = Join(mresp.body.d)
           /\ Len(mresp.question) = 3
           /\ mresp.question[1] = FallbackOpening
           /\ mresp.body.d # << >> => mresp.question[2] = mresp.body.d[1]

\* the call raised for a request declaring a skill, and the session started
C9_Witness ==
    /\ mresp.op = "start_interview"
    /\ client
    /\ mresp.body.v.s = "raise"
    /\ Len(mresp.body.d) = 2
    /\ mresp.status = 200
    /\ mresp.sid \in SessionIds

\* C10 as stated: submit_answer and get_report on a session id that
\* start_interview never returned answer not-found and record no Turn.
C10_UnknownSessionIsNotFound ==
    [][(/\ mresp'.op \in {"submit_answer", "get_report"}
        /\ mresp'.sid \notin SessionIds)
          => (mresp'.status = 404 /\ qa_history' = qa_history)]_vars

\* C11 as stated: once get_report has produced the report of a session, a
\* submit_answer for that session id is not accepted and appends no Turn
\* (here: the submit_answer that comes right after the report).
C11_NoAnswerAfterReport ==
    [][(/\ mresp.op = "get_report"
        /\ mresp.status = 200
        /\ mresp.sid \in SessionIds
        /\ mresp'.op = "submit_answer"
        /\ mresp'.sid = mresp.sid)
          => (mresp'.status # 200 /\ qa_history' = qa_history)]_vars

\* C12: get_report on a session without recorded turns answers 200 with
\* final score 0 and a non-empty tip list.
C12_EmptyReport ==
    (mresp.op = "get_report" /\ ReportRows(qa_history, mresp.sid) = <<>>)
        => /\ mresp.status = 200
           /\ mresp.body.kind = "dict"
           /\ mresp.body.d["final_score"] = JInt(0)
           /\ mresp.question # <<>>

\* the report of a started session that has no turn was asked for
C12_Witness ==
    /\ mresp.op = "get_report"
    /\ mresp.sid \in SessionIds
    /\ ReportRows(qa_history, mresp.sid) = <<>>
    /\ mresp.status = 200

\* a reply neither json.loads nor the brace span of it can decode
Unparseable(text) ==
    /\ json_loads(text).kind = "raise"
    /\ \/ regex_span(text) = <<>>
       \/ json_loads(regex_span(text)).kind = "raise"

\* C13 as stated: submit_answer returns the fixed default record (score 5,
\* generic feedback) when the client is missing, when the call raises and
\* when the reply cannot be parsed as JSON.
C13_DefaultRecordOnFailure ==
    (/\ mresp.op = "submit_answer"
     /\ \/ ~ client
        \/ mresp.ai.kind = "raise"
        \/ mresp.ai.kind = "reply" /\ Unparseable(mresp.ai.content))
        => /\ mresp.status = 200
           /\ mresp.body = DefaultRecord

\* C14 as stated: every submit_answer that returns a record appends exactly
\* one Turn, and no step changes or removes a Turn already written.
C14_OneTurnPerAnswer ==
    [][/\ (mresp'.op = "submit_answer" /\ mresp'.status = 200) =>
              Len(qa_history') = Len(qa_history) + 1
       /\ Len(qa_history') >= Len(qa_history)
       /\ SubSeq(qa_history', 1, Len(qa_history)) = qa_history]_vars

\* the scores get_report sums for the session of the last response
ReportScoreSum ==
    LET rows == ReportRows(qa_history, mresp.sid)
    IN  SumSeq([i \in DOMAIN rows |-> rows[i].score.n])

ReportTurns == Len(ReportRows(qa_history, mresp.sid))

\* C15 as stated: for a session with at least one turn the report's overall
\* score is the integer floor of the average of the turn scores.
C15_ScoreIsFloorOfAverage ==
    (mresp.op = "get_report" /\ mresp.status = 200 /\ ReportTurns >= 1)
        => mresp.body.d["final_score"].n = ReportScoreSum \div ReportTurns

\* C15 amended: the score of every report returned for a session with at
\* least one turn is the integer nearest to the average, a half going to the
\* even neighbour.
C15_ScoreIsRoundHalfEven ==
    (mresp.op = "get_report" /\ mresp.status = 200 /\ ReportTurns >= 1)
        => LET f == mresp.body.d["final_score"].n
               gap == ReportTurns * f - ReportScoreSum
               dist == IF gap < 0 THEN 0 - gap ELSE gap
           IN  /\ 2 * dist <= ReportTurns
               /\ (2 * dist = ReportTurns) => f % 2 = 0

\* a report over an average whose fraction is a half or more
C15_Witness ==
    /\ mresp.op = "get_report"
    /\ mresp.status = 200
    /\ ReportTurns >= 1
    /\ 2 * (ReportScoreSum % ReportTurns) >= ReportTurns

----------------------------------------------------------------------------
(* Properties of the HR routes *)

\* C16: for every candidate get_candidates returns, interview_score is the
\* integer-truncated mean of the interview scores (0 if none), mock_score the
\* best mock score (0 if none), resume_score the resume score (0 if absent),
\* and overall_score equals (6*interviewAvg + 2*mockScore + 2*resumeScore) div 10
C16_OverallIsWeightedTenths ==
    hresp.op = "get_candidates" =>
        \A i \in DOMAIN hresp.out :
            LET c == hresp.out[i]
                ia == InterviewAvg(interviews[c.email])
                m == MockScore(mock_reports[c.email])
                r == ResumeScore(resumes[c.email])
            IN  /\ c.interview_score = ia
                /\ c.mock_score = m
                /\ c.resume_score = r
                /\ c.overall_score = (6 * ia + 2 * m + 2 * r) \div 10

\* the place of a candidate in a list of distinct candidates
PosIn(l, c) == CHOOSE i \in DOMAIN l : l[i] = c

\* C17: the list filter_sort_candidates returns is ordered by overall_score
\* descending, and candidates with equal overall_score keep the relative order
\* they had in the input
C17_SortedDescStable ==
    fresp.done =>
        \A i, j \in DOMAIN fresp.returned :
            i < j =>
                LET a == fresp.returned[i]
                    b == fresp.returned[j]
                IN  /\ a.overall_score >= b.overall_score
                    /\ a.overall_score = b.overall_score =>
                          PosIn(fresp.candidates, a) < PosIn(fresp.candidates, b)

\* a call that returned two candidates of equal score and moved a third one
\* ahead of a candidate that preceded it in the input
C17_Witness ==
    /\ fresp.done
    /\ \E i, j \in DOMAIN fresp.returned :
          /\ i < j
          /\ fresp.returned[i].overall_score = fresp.returned[j].overall_score
    /\ \E i, j \in DOMAIN fresp.returned :
          /\ i < j
          /\ PosIn(fresp.candidates, fresp.returned[i]) > PosIn(fresp.candidates, fresp.returned[j])

\* the filters as the claim words them
ClaimedPass(c, f) ==
    /\ f.role = NoText \/ Lower(f.role) = All \/ Lower(c.role) = Lower(f.role)
    /\ f.min_score.ty = "int" => c.overall_score >= f.min_score.n
    /\ f.status = NoText \/ Lower(f.status) = All \/ Lower(c.status) = Lower(f.status)
    /\ f.search = NoText \/ MatchesSearch(c, Lower(f.search))

Count(l, c) == Cardinality({ i \in DOMAIN l : l[i] = c })

\* C18: the list filter_sort_candidates returns holds exactly the input
\* candidates that pass role, min_score, status ("all" in any letter case
\* switching the filter off) and search, each as often as the input holds it
C18_ExactlyThePassing ==
    fresp.done =>
        \A c \in Pool :
            Count(fresp.returned, c) =
                IF ClaimedPass(c, fresp) THEN Count(fresp.candidates, c) ELSE 0

\* C19: after the call the caller's list holds the same elements in the same
\* order as before it, whatever the arguments
C19_CallerListUntouched ==
    fresp.done => caller_list = fresp.candidates

StoredFor(rows, e) == { r \in rows : r.email = e }

----------------------------------------------------------------------------
(* Properties of the resume analyzer *)

\* C21: an upload whose extracted text has fewer than 150 characters is
\* answered with a client error (4xx), the remote model is not called and
\* resume_analysis gets no row
C21_ShortTextRefused ==
    [][ ( /\ rresp'.op = "analyze_resume"
          /\ rresp'.pages # Unreadable
          /\ TextLen(StripRuns(ConcatPages(rresp'.pages))) < 150 )
        => ( /\ rresp'.status \in 400..499
             /\ rresp'.ai = NoReply
             /\ resume_analysis' = resume_analysis )
      ]_vars

\* a PDF upload with 100 characters of text was refused as too short while the
\* client was configured and an earlier upload had been analysed and stored
C21_Witness ==
    /\ rresp.op = "analyze_resume"
    /\ rresp.detail = "Resume text too short"
    /\ rresp.pages = << <<Run("x", 100), Run(" ", 60)>> >>
    /\ resume_client
    /\ resume_analysis # << >>

StrictParses(raw) == json_loads(raw).kind # "raise"

SpanParses(raw) ==
    /\ raw # NoneText
    /\ regex_span(raw) # << >>
    /\ json_loads(regex_span(raw)).kind # "raise"

\* C22: a reply is decoded by the strict parse if that succeeds, else by the
\* parse of the brace-delimited span; when neither succeeds (a span that is no
\* JSON included) the answer is 5xx and resume_analysis gets no row
C22_DecodeOrServerError ==
    [][ (rresp'.op = "analyze_resume" /\ rresp'.ai.kind = "ok") =>
          LET raw == rresp'.ai.content IN
          /\ (~ StrictParses(raw) /\ ~ SpanParses(raw)) =>
                (rresp'.status \in 500..599 /\ resume_analysis' = resume_analysis)
          /\ rresp'.status = 200 =>
                rresp'.analysis = IF StrictParses(raw) THEN json_loads(raw)
                                  ELSE json_loads(regex_span(raw))
      ]_vars

\* a reply with a brace span that is no JSON was answered 500 for a request
\* that named an email, after an earlier analysis had been stored
C22_Witness ==
    /\ rresp.op = "analyze_resume"
    /\ rresp.ai.kind = "ok"
    /\ rresp.ai.content # NoneText
    /\ regex_span(rresp.ai.content) # << >>
    /\ ~ SpanParses(rresp.ai.content)
    /\ rresp.status = 500
    /\ rresp.email # NoText
    /\ resume_analysis # << >>

----------------------------------------------------------------------------
(* Further properties of the mock interview *)

\* C27: every row of qa_history carries an integer score, and get_report
\* answers 200 for every session, whatever object the model had returned
C27_ReportNeverRaises ==
    /\ \A i \in DOMAIN qa_history : qa_history[i].score.ty = "int"
    /\ mresp.op = "get_report" => mresp.status = 200

----------------------------------------------------------------------------
(* Properties of the resume upload *)

\* C28: every call of upload_resume succeeds; after it the resume of the
\* account with that email is the returned filename and the resume of every
\* other account is what it was
C28_UploadAlwaysSucceeds ==
    [][ /\ uresp'.op = "upload_resume"
        /\ uresp'.status = 200
        /\ \A e \in DOMAIN user_resume' :
              user_resume'[e] = IF e = uresp'.email THEN uresp'.filename
                                ELSE user_resume[e]
      ]_vars

----------------------------------------------------------------------------
(* Properties of the real-time interview *)

HasFrame(out, turn, what) ==
    \E i \in DOMAIN out : out[i].type = "text_response" /\ out[i].turn = turn /\ out[i].what = what

\* the answers the handler has recorded, in the order of its history
Recorded ==
    IF route = "main" THEN [i \in DOMAIN iv.history |-> iv.history[i].answer]
    ELSE IF ConnSid \in DOMAIN active
    THEN LET said == SelectSeq(active[ConnSid], LAMBDA h : h.role = "user")
         IN  [i \in DOMAIN said |-> said[i].turn]
    ELSE << >>

\* the turn of the message in hand has sent all its frames
TurnComplete ==
    IF route = "main"
    THEN (\E i \in DOMAIN iv.history : iv.history[i].answer = ws.cur.n) =>
            (HasFrame(ws.out, ws.cur.n, "feedback") /\ HasFrame(ws.out, ws.cur.n, "next_question"))
    ELSE ws.cur.kind = "answer" => HasFrame(ws.out, ws.cur.n, "reply")

\* C23: turns of one connection do not overlap: the handler takes the next
\* inbound message only when the feedback and the next question of the turn
\* in hand are sent, and history entries and frames follow the order in which
\* the answers were received
C23_TurnsDoNotOverlap ==
    /\ [](/\ \A i, j \in DOMAIN Recorded : i < j => Recorded[i] < Recorded[j]
          /\ \A i, j \in DOMAIN ws.out : i < j => ws.out[i].turn <= ws.out[j].turn)
    /\ [][ws'.cur # ws.cur => TurnComplete]_vars

\* the second answer is recorded and its feedback sent, its next question is
\* still to come, and a further message of the client is waiting
C23_Witness ==
    /\ Len(Recorded) = 2
    /\ ws.pc = "nextq"
    /\ HasFrame(ws.out, ws.cur.n, "feedback")
    /\ ws.inbox # << >>

\* C24: once the handler of the connection has ended, the table active holds
\* no entry for the connection
C24_NoEntryAfterHandler ==
    ws.pc = "ended" => ConnSid \notin DOMAIN active

\* the remote model failed on an evaluation: unreachable, no JSON, or a JSON
\* object that lacks a field the handler reads
EvalFailed(o) ==
    \/ o.kind = "raise"
    \/ BraceSlice(o.content) = << >>
    \/ json_loads(BraceSlice(o.content)).kind # "dict"
    \/ ~ ({ "technical_score", "grammar_score", "posture_score", "feedback",
            "improved_answer" } \subseteq DOMAIN json_loads(BraceSlice(o.content)).d)

\* the remote model failed on a question or a reply: unreachable, or no text
TextFailed(o) == o.kind = "raise" \/ o.content = NoneText

\* C25: a failure of the remote model during an answer turn is absorbed: the
\* turn is recorded, feedback and next question are sent, and the handler goes
\* on to the next message
C25_RemoteFailureAbsorbed ==
    [][ /\ (ws.pc = "eval" /\ ws'.pc # "eval" /\ EvalFailed(ws'.ai)) =>
              /\ Len(iv'.history) = Len(iv.history) + 1
              /\ HasFrame(ws'.out, ws.cur.n, "feedback")
              /\ ws'.pc # "ended"
        /\ (ws.pc = "nextq" /\ ws'.pc # "nextq" /\ TextFailed(ws'.ai)) =>
              /\ HasFrame(ws'.out, ws.cur.n, "next_question")
              /\ ws'.pc = "recv"
        /\ (ws.pc = "c_answer" /\ ws'.pc # "c_answer" /\ TextFailed(ws'.ai)) =>
              /\ HasFrame(ws'.out, ws.cur.n, "reply")
              /\ Len(active'[ConnSid]) = Len(active[ConnSid]) + 1
              /\ ws'.pc = "recv"
      ]_vars

Rank(state) == CASE state = "idle" -> 0 [] state = "active" -> 1 [] state = "finished" -> 2

Reports(out) == Cardinality({ i \in DOMAIN out : out[i].type = "report" })

\* C26: in interview_ws the state only moves idle -> active -> finished; an
\* answer received before a start leaves the history as it is and gets no
\* reply; the history is as long as the number of answers received while
\* active and never shrinks; after an end message exactly one report is sent
\* and nothing more is processed
C26_IdleActiveFinished ==
    /\ [](route = "main" =>
            /\ ws.pc \in { "recv", "ended" } => Len(iv.history) = iv.nans
            /\ \A i \in DOMAIN ws.out : ws.out[i].turn \notin iv.unheard
            /\ \A i \in DOMAIN iv.history : iv.history[i].answer \notin iv.unheard
            /\ (ws.pc = "ended" /\ ws.cur.kind = "end") => Reports(ws.out) = 1)
    /\ [][route = "main" =>
            /\ Rank(iv'.interview_state) >= Rank(iv.interview_state)
            /\ Len(iv'.history) >= Len(iv.history)
            /\ SubSeq(iv'.history, 1, Len(iv.history)) = iv.history
            /\ iv'.unheard # iv.unheard =>
                  (iv'.history = iv.history /\ ws'.out = ws.out /\ ws'.pc = "recv")
            /\ ws.pc = "ended" =>
                  (ws'.cur = ws.cur /\ ws'.out = ws.out /\ iv' = iv)
          ]_vars

====
